---- MODULE Spec2Model ----
(***************************************************************************)
(* Model of the image watermark service (src/main.rs): the POST handler    *)
(* watermark_handler, the body-size extractor in front of it, and the      *)
(* synchronous pipeline draw_watermark_on_image.                           *)
(*                                                                         *)
(* Every request is handled by its own task.  A task suspends only at the  *)
(* .await points of the handler (reading the next multipart part and its   *)
(* body), so one action is one iteration of the field loop; decode, font   *)
(* load, overlay and encode run without suspension and are one action.     *)
(***************************************************************************)
EXTENDS Integers, Sequences, FiniteSets, TLC

VARIABLES
    pc,             \* per request: position of the handler task
    contentLength,  \* per request: the Content-Length header (-1: none)
    submitted,      \* per request: the multipart parts read so far (history)
    bytes,          \* handler local `bytes`
    scale_num,      \* handler local `scale_num`
    posx,           \* handler local `posx`
    posy,           \* handler local `posy`
    text,           \* handler local `text`
    steps,          \* per request: pipeline steps executed (history)
    response        \* per request: what the client receives

vars == <<pc, contentLength, submitted, bytes, scale_num, posx, posy, text,
          steps, response>>

locals == <<bytes, scale_num, posx, posy, text>>

----------------------------------------------------------------------------
(* Bounds of the model *)

\* parts read from one multipart stream
MaxParts == 3
\* requests in flight at once in SpecConc
NumReqs == 2
\* parts read from one multipart stream in SpecConc
MaxConcParts == 2

----------------------------------------------------------------------------
(* Strings are sequences of one-character strings, so that parsing is      *)
(* something the model computes.                                           *)

DigitVal == [c \in {"0", "1", "2", "3", "4", "5", "6", "7", "8", "9"} |->
               CASE c = "0" -> 0 [] c = "1" -> 1 [] c = "2" -> 2 [] c = "3" -> 3
                 [] c = "4" -> 4 [] c = "5" -> 5 [] c = "6" -> 6 [] c = "7" -> 7
                 [] c = "8" -> 8 [] c = "9" -> 9]

IsDigit(c) == c \in DOMAIN DigitVal

ParseErr == [ok |-> FALSE, val |-> 0]

\* u32::MAX = 4294967295 = U32MaxDiv10 * 10 + U32MaxMod10
U32MaxDiv10 == 429496729
U32MaxMod10 == 5

\* The digit loop of <u32 as FromStr>: checked_mul(10) then checked_add(d).
RECURSIVE U32Digits(_, _)
U32Digits(s, acc) ==
    IF s = <<>> THEN [ok |-> TRUE, val |-> acc]
    ELSE IF ~IsDigit(Head(s)) THEN ParseErr
    ELSE IF acc > U32MaxDiv10
            \/ (acc = U32MaxDiv10 /\ DigitVal[Head(s)] > U32MaxMod10)
         THEN ParseErr
    ELSE U32Digits(Tail(s), acc * 10 + DigitVal[Head(s)])

\* str::parse::<u32>(): empty, a lone sign, "-" and any non-digit are errors;
\* one leading "+" is accepted; a value above u32::MAX is an error.
ParseU32(s) ==
    IF s = <<>> THEN ParseErr
    ELSE IF Len(s) = 1 /\ Head(s) \in {"+", "-"} THEN ParseErr
    ELSE IF Head(s) = "+" THEN U32Digits(Tail(s), 0)
    ELSE U32Digits(s, 0)

\* A parsed f32: its class, its sign, and for a finite value the decimal
\* mantissa and the number of fraction digits (trailing zeros removed).
F32(cls, neg, mant, frac) ==
    [ok |-> TRUE, cls |-> cls, neg |-> neg, mant |-> mant, frac |-> frac]

F32Err == [ok |-> FALSE, cls |-> "error", neg |-> FALSE, mant |-> 0, frac |-> 0]

Lower(c) ==
    CASE c = "N" -> "n" [] c = "A" -> "a" [] c = "I" -> "i" [] c = "F" -> "f"
      [] c = "T" -> "t" [] c = "Y" -> "y" [] OTHER -> c

LowerAll(s) == [i \in 1..Len(s) |-> Lower(s[i])]

RECURSIVE DigitsValue(_, _)
DigitsValue(s, acc) ==
    IF s = <<>> THEN acc ELSE DigitsValue(Tail(s), acc * 10 + DigitVal[Head(s)])

RECURSIVE Normalize(_, _)
Normalize(mant, frac) ==
    IF frac > 0 /\ mant % 10 = 0 THEN Normalize(mant \div 10, frac - 1)
    ELSE [mant |-> mant, frac |-> frac]

\* Digit* [ '.' Digit* ] with at least one digit (no exponent in the model's
\* sample strings).
F32Decimal(s, neg) ==
    LET dots == {i \in 1..Len(s) : s[i] = "."}
        cut  == IF dots = {} THEN Len(s) + 1
                ELSE CHOOSE i \in dots : \A j \in dots : i <= j
        ip   == SubSeq(s, 1, cut - 1)
        fp   == SubSeq(s, cut + 1, Len(s))
        allDigits(t) == \A i \in 1..Len(t) : IsDigit(t[i])
    IN  IF Cardinality(dots) > 1 \/ ~allDigits(ip) \/ ~allDigits(fp)
           \/ Len(ip) + Len(fp) = 0
        THEN F32Err
        ELSE LET n == Normalize(DigitsValue(ip \o fp, 0), Len(fp))
             IN  F32("finite", neg, n.mant, n.frac)

\* str::parse::<f32>(): an optional sign, then 'inf', 'infinity' or 'nan' in
\* any letter case, or a decimal number.
ParseF32(s) ==
    LET neg  == s # <<>> /\ Head(s) = "-"
        body == IF s # <<>> /\ Head(s) \in {"+", "-"} THEN Tail(s) ELSE s
        low  == LowerAll(body)
    IN  IF low = <<"n", "a", "n">> THEN F32("nan", neg, 0, 0)
        ELSE IF low \in {<<"i", "n", "f">>,
                         <<"i", "n", "f", "i", "n", "i", "t", "y">>}
             THEN F32("inf", neg, 0, 0)
        ELSE F32Decimal(body, neg)

----------------------------------------------------------------------------
(* Byte sequences are described by what a decoder finds in them: the       *)
(* container magic, whether the stream is structurally intact, the pixel   *)
(* format and the dimensions.                                              *)

Bytes(magic, intact, color, w, h, len) ==
    [magic |-> magic, intact |-> intact, color |-> color, w |-> w, h |-> h,
     len |-> len]

\* Vec::new()
EmptyBytes == Bytes("none", FALSE, "none", 0, 0, 0)

NoImage == [color |-> "none", w |-> 0, h |-> 0]

NoJpeg == [format |-> "none", w |-> 0, h |-> 0, mark |-> <<>>]

\* ImageReader::with_guessed_format(): the format is sniffed from the content.
GuessFormat(img) ==
    CASE img.magic = "png" -> "Png" [] img.magic = "jpeg" -> "Jpeg"
      [] OTHER -> "None"

\* ImageReader::decode(): no guessed format is an Unsupported error, a damaged
\* stream a Decoding error.
Decode(img) ==
    IF GuessFormat(img) = "None" THEN [ok |-> FALSE, img |-> NoImage]
    ELSE IF ~img.intact THEN [ok |-> FALSE, img |-> NoImage]
    ELSE [ok |-> TRUE, img |-> [color |-> img.color, w |-> img.w, h |-> img.h]]

\* include_bytes!("../fonts/Urbanist/static/Urbanist-Black.ttf"): the font is
\* fixed when the binary is built
font_data == "truetype"

\* Font::try_from_bytes
FontTryFromBytes(data) == data = "truetype"

\* The pixel formats the JPEG encoder takes; any other is an Unsupported error.
JpegColors == {"L8", "La8", "Rgb8", "Rgba8", "Bgr8", "Bgra8"}

\* DynamicImage::write_to(.., ImageFormat::Jpeg) after draw_text_mut.
WriteToJpeg(dyna, mark) ==
    IF dyna.color \in JpegColors
    THEN [ok |-> TRUE,
          out |-> [format |-> "jpeg", w |-> dyna.w, h |-> dyna.h, mark |-> mark]]
    ELSE [ok |-> FALSE, out |-> NoJpeg]

\* draw_watermark_on_image: "Ok" with the JPEG, "Err" (decode or font), or
\* "Panic" (expect on the encoder's result); `steps` lists what was executed.
draw_watermark_on_image(img, scale, txt, x, y) ==
    LET dec == Decode(img)
        enc == WriteToJpeg(dec.img, <<txt, x, y, scale>>)
    IN  IF ~dec.ok
        THEN [result |-> "Err", out |-> NoJpeg, steps |-> <<"decode">>]
        ELSE IF ~FontTryFromBytes(font_data)
        THEN [result |-> "Err", out |-> NoJpeg, steps |-> <<"decode", "font">>]
        ELSE IF ~enc.ok
        THEN [result |-> "Panic", out |-> NoJpeg,
              steps |-> <<"decode", "font", "overlay", "encode">>]
        ELSE [result |-> "Ok", out |-> enc.out,
              steps |-> <<"decode", "font", "overlay", "encode">>]

----------------------------------------------------------------------------
(* Responses *)

NoResponse == [kind |-> "none", html |-> "", img |-> NoJpeg]

\* Html(err_msg)
error_page(err_msg) == [kind |-> "html", html |-> err_msg, img |-> NoJpeg]

\* the page with the base64 image embedded
OutputPage(img) == [kind |-> "html", html |-> "Output", img |-> img]

\* a rejection produced by an extractor, before the handler body
Rejection(code) == [kind |-> "rejection", html |-> code, img |-> NoJpeg]

ScaleMsg == "invalid scale number"
PosxMsg == "invalid position x number, only positive number"
PosyMsg == "invalid position y number, only positive number"
DecodeMsg == "<h1>Image type is not supported</h1>"

----------------------------------------------------------------------------
(* The extractor ContentLengthLimit<Multipart, { 250 * 1024 * 1024 }>      *)

Limit == 250 * 1024 * 1024

NoLength == -1

\* ContentLengthLimit with a fault: the cap is never applied.
ContentLengthUnlimited(len) ==
    IF len = NoLength THEN "LengthRequired" ELSE "Pass"

ContentLengthLimit(len) ==
    IF len = NoLength THEN "LengthRequired"
    ELSE IF len > Limit THEN "PayloadTooLarge"
    ELSE "Pass"

----------------------------------------------------------------------------
(* Multipart parts as the stream delivers them *)

Part(name, readable, chars, img) ==
    [kind |-> "part", hasName |-> TRUE, name |-> name, readable |-> readable,
     chars |-> chars, img |-> img]

\* a part whose Content-Disposition carries no name
NamelessPart == [Part("", TRUE, <<>>, EmptyBytes) EXCEPT !.hasName = FALSE]

\* next_field() returned Err: the stream broke or is malformed
StreamError == [Part("", FALSE, <<>>, EmptyBytes) EXCEPT
                  !.kind = "stream_error", !.hasName = FALSE]

\* field.text() decodes the body as UTF-8, a malformed sequence becoming the
\* replacement character (written "?" here)
TextPart(name, chars) == Part(name, TRUE, chars, EmptyBytes)
FilePart(img) == Part("file", TRUE, <<>>, img)
\* the body stream breaks while it is read: field.text() / field.bytes() is Err
BrokenPart(name) == Part(name, FALSE, <<>>, EmptyBytes)

Garbage == Bytes("none", FALSE, "none", 0, 0, 3)
PngRgb8 == Bytes("png", TRUE, "Rgb8", 2, 3, 70)
PngRgb16 == Bytes("png", TRUE, "Rgb16", 2, 2, 75)
PngCut == Bytes("png", FALSE, "Rgb8", 2, 3, 20)
JpegRgb8 == Bytes("jpeg", TRUE, "Rgb8", 3, 3, 120)

BlueBird == <<"B", "l", "u", "e", " ", "B", "i", "r", "d">>

\* the values a request may carry, per field
Inputs ==
    [file  |-> {FilePart(Garbage), FilePart(PngRgb8), FilePart(PngRgb16),
                FilePart(PngCut), FilePart(JpegRgb8), BrokenPart("file")},
     scale |-> {TextPart("scale", <<"2", "4">>), TextPart("scale", <<"1", ".", "5">>),
                TextPart("scale", <<"-", "3">>), TextPart("scale", <<"N", "a", "N">>),
                TextPart("scale", <<"a", "b", "c">>), BrokenPart("scale")},
     posx  |-> {TextPart("posx", <<"1", "0">>), TextPart("posx", <<"+", "7">>),
                TextPart("posx", <<"a", "b", "c">>), TextPart("posx", <<"-", "3">>),
                TextPart("posx", <<"4", "2", "9", "4", "9", "6", "7", "2", "9", "6">>),
                BrokenPart("posx")},
     posy  |-> {TextPart("posy", <<"1", "0">>), TextPart("posy", <<"?", "1">>),
                BrokenPart("posy")},
     text  |-> {TextPart("text", <<"h", "i">>), TextPart("text", <<>>),
                BrokenPart("text")},
     other |-> {TextPart("submit", <<"o", "k">>)},
     len   |-> {NoLength, 4096, Limit, Limit + 1}]

\* a smaller choice for the runs with several requests in flight
ConcInputs ==
    [file  |-> {FilePart(PngRgb8)},
     scale |-> {TextPart("scale", <<"2", "4">>)},
     posx  |-> {TextPart("posx", <<"a", "b", "c">>)},
     len   |-> {4096}]

----------------------------------------------------------------------------
(* State *)

Reqs == 1..NumReqs

\* Defaults with a fault: scale_num starts at zero like the positions.
DefaultsZeroScale ==
    [bytes |-> EmptyBytes, scale_num |-> F32("finite", FALSE, 0, 0), posx |-> 0,
     posy |-> 0, text |-> BlueBird]

\* watermark_handler's locals as declared at the top of the handler
Defaults ==
    [bytes |-> EmptyBytes, scale_num |-> F32("finite", FALSE, 18, 0), posx |-> 0,
     posy |-> 0, text |-> BlueBird]

\* no request in flight on any connection of R
InitOver(R) ==
    /\ pc = [r \in R |-> "idle"]
    /\ contentLength = [r \in R |-> NoLength]
    /\ submitted = [r \in R |-> <<>>]
    /\ bytes = [r \in R |-> Defaults.bytes]
    /\ scale_num = [r \in R |-> Defaults.scale_num]
    /\ posx = [r \in R |-> Defaults.posx]
    /\ posy = [r \in R |-> Defaults.posy]
    /\ text = [r \in R |-> Defaults.text]
    /\ steps = [r \in R |-> <<>>]
    /\ response = [r \in R |-> NoResponse]

\* one connection
Init == InitOver({1})

\* NumReqs connections
InitConc == InitOver(Reqs)

\* SetLocal with a fault: the value lives in one cell all handlers share.
SetShared(f, r, v) == [q \in DOMAIN f |-> v]

\* assignment to a local of request r's handler
SetLocal(f, r, v) == [f EXCEPT ![r] = v]

\* the handler task of r moves to `to` with response `resp`, having read `p`
Goto(r, p, to, resp) ==
    /\ submitted' = [submitted EXCEPT ![r] = Append(@, p)]
    /\ pc' = [pc EXCEPT ![r] = to]
    /\ response' = [response EXCEPT ![r] = resp]
    /\ UNCHANGED <<contentLength, steps>>

\* unwrap() on an Err or None: the task panics, the client gets no response
Panic(r, p) == Goto(r, p, "panicked", NoResponse) /\ UNCHANGED locals

\* the bound on the parts of one stream: MaxParts with one connection,
\* MaxConcParts with several
PartBound == IF DOMAIN pc = {1} THEN MaxParts ELSE MaxConcParts

CanRead(r) == pc[r] = "reading" /\ Len(submitted[r]) < PartBound

----------------------------------------------------------------------------
(* Actions *)

\* A POST arrives; the extractor runs before the handler body.
Post(r, len) ==
    /\ pc[r] = "idle"
    /\ contentLength' = [contentLength EXCEPT ![r] = len]
    /\ LET verdict == ContentLengthLimit(len)
       IN  IF verdict = "Pass"
           THEN /\ pc' = [pc EXCEPT ![r] = "reading"]
                /\ UNCHANGED response
           ELSE /\ pc' = [pc EXCEPT ![r] = "rejected"]
                /\ response' = [response EXCEPT ![r] = Rejection(verdict)]
    /\ UNCHANGED <<submitted, locals, steps>>

\* multipart.next_field().await is Err
NextFieldErr(r) ==
    /\ pc[r] = "reading"
    /\ Panic(r, StreamError)

\* field.name() is None
FieldNoName(r) ==
    /\ CanRead(r)
    /\ Panic(r, NamelessPart)

\* "file" => bytes = field.bytes().await.unwrap().to_vec()
ReadFile(r, p) ==
    /\ CanRead(r)
    /\ IF ~p.readable THEN Panic(r, p)
       ELSE /\ bytes' = SetLocal(bytes, r, p.img)
            /\ Goto(r, p, "reading", NoResponse)
            /\ UNCHANGED <<scale_num, posx, posy, text>>

\* "scale" => scale_num = field.text().await.unwrap().parse() or error page
ReadScale(r, p) ==
    /\ CanRead(r)
    /\ IF ~p.readable THEN Panic(r, p)
       ELSE LET num == ParseF32(p.chars)
            IN  IF num.ok
                THEN /\ scale_num' = SetLocal(scale_num, r, num)
                     /\ Goto(r, p, "reading", NoResponse)
                     /\ UNCHANGED <<bytes, posx, posy, text>>
                ELSE /\ Goto(r, p, "done", error_page(ScaleMsg))
                     /\ UNCHANGED locals

\* ReadPosx with a fault: a value that does not parse is taken as 0
\* (parse().unwrap_or(0)) and the loop goes on.
ReadPosxUnchecked(r, p) ==
    /\ CanRead(r)
    /\ IF ~p.readable THEN Panic(r, p)
       ELSE LET num == ParseU32(p.chars)
            IN  /\ posx' = SetLocal(posx, r, IF num.ok THEN num.val ELSE 0)
                /\ Goto(r, p, "reading", NoResponse)
                /\ UNCHANGED <<bytes, scale_num, posy, text>>

\* "posx" => posx = field.text().await.unwrap().parse() or error page
ReadPosx(r, p) ==
    /\ CanRead(r)
    /\ IF ~p.readable THEN Panic(r, p)
       ELSE LET num == ParseU32(p.chars)
            IN  IF num.ok
                THEN /\ posx' = SetLocal(posx, r, num.val)
                     /\ Goto(r, p, "reading", NoResponse)
                     /\ UNCHANGED <<bytes, scale_num, posy, text>>
                ELSE /\ Goto(r, p, "done", error_page(PosxMsg))
                     /\ UNCHANGED locals

\* "posy" => posy = field.text().await.unwrap().parse() or error page
ReadPosy(r, p) ==
    /\ CanRead(r)
    /\ IF ~p.readable THEN Panic(r, p)
       ELSE LET num == ParseU32(p.chars)
            IN  IF num.ok
                THEN /\ posy' = SetLocal(posy, r, num.val)
                     /\ Goto(r, p, "reading", NoResponse)
                     /\ UNCHANGED <<bytes, scale_num, posx, text>>
                ELSE /\ Goto(r, p, "done", error_page(PosyMsg))
                     /\ UNCHANGED locals

\* "text" => text = field.text().await.unwrap().to_string()
ReadText(r, p) ==
    /\ CanRead(r)
    /\ IF ~p.readable THEN Panic(r, p)
       ELSE /\ text' = SetLocal(text, r, p.chars)
            /\ Goto(r, p, "reading", NoResponse)
            /\ UNCHANGED <<bytes, scale_num, posx, posy>>

\* _ => the part is skipped
ReadUnknown(r, p) ==
    /\ CanRead(r)
    /\ Goto(r, p, "reading", NoResponse)
    /\ UNCHANGED locals

\* multipart.next_field().await is Ok(None): the loop ends
NextFieldNone(r) ==
    /\ pc[r] = "reading"
    /\ pc' = [pc EXCEPT ![r] = "extracted"]
    /\ UNCHANGED <<contentLength, submitted, locals, steps, response>>

\* the rest of the handler: draw_watermark_on_image and the response
Draw(r) ==
    /\ pc[r] = "extracted"
    /\ LET res == draw_watermark_on_image(bytes[r], scale_num[r], text[r],
                                          posx[r], posy[r])
       IN  /\ steps' = [steps EXCEPT ![r] = res.steps]
           /\ pc' = [pc EXCEPT ![r] = IF res.result = "Panic" THEN "panicked"
                                      ELSE "done"]
           /\ response' = [response EXCEPT ![r] =
                             CASE res.result = "Ok" -> OutputPage(res.out)
                               [] res.result = "Err" -> error_page(DecodeMsg)
                               [] OTHER -> NoResponse]
    /\ UNCHANGED <<contentLength, submitted, locals>>

Finished(r) == pc[r] \in {"done", "rejected", "panicked"}

\* the task has ended and its locals are dropped; the connection takes the
\* next request
Close(r) ==
    /\ Finished(r)
    /\ pc' = [pc EXCEPT ![r] = "idle"]
    /\ contentLength' = [contentLength EXCEPT ![r] = NoLength]
    /\ submitted' = [submitted EXCEPT ![r] = <<>>]
    /\ bytes' = [bytes EXCEPT ![r] = Defaults.bytes]
    /\ scale_num' = [scale_num EXCEPT ![r] = Defaults.scale_num]
    /\ posx' = [posx EXCEPT ![r] = Defaults.posx]
    /\ posy' = [posy EXCEPT ![r] = Defaults.posy]
    /\ text' = [text EXCEPT ![r] = Defaults.text]
    /\ steps' = [steps EXCEPT ![r] = <<>>]
    /\ response' = [response EXCEPT ![r] = NoResponse]

Next ==
    \/ \E r \in DOMAIN pc, len \in Inputs.len : Post(r, len)
    \/ \E r \in DOMAIN pc : NextFieldErr(r)
    \/ \E r \in DOMAIN pc : FieldNoName(r)
    \/ \E r \in DOMAIN pc, p \in Inputs.file : ReadFile(r, p)
    \/ \E r \in DOMAIN pc, p \in Inputs.scale : ReadScale(r, p)
    \/ \E r \in DOMAIN pc, p \in Inputs.posx : ReadPosx(r, p)
    \/ \E r \in DOMAIN pc, p \in Inputs.posy : ReadPosy(r, p)
    \/ \E r \in DOMAIN pc, p \in Inputs.text : ReadText(r, p)
    \/ \E r \in DOMAIN pc, p \in Inputs.other : ReadUnknown(r, p)
    \/ \E r \in DOMAIN pc : NextFieldNone(r)
    \/ \E r \in DOMAIN pc : Draw(r)
    \/ \E r \in DOMAIN pc : Close(r)

\* several requests in flight, each carrying parts of ConcInputs
NextConc ==
    \/ \E r \in DOMAIN pc, len \in ConcInputs.len : Post(r, len)
    \/ \E r \in DOMAIN pc : FieldNoName(r)
    \/ \E r \in DOMAIN pc, p \in ConcInputs.file : ReadFile(r, p)
    \/ \E r \in DOMAIN pc, p \in ConcInputs.scale : ReadScale(r, p)
    \/ \E r \in DOMAIN pc, p \in ConcInputs.posx : ReadPosx(r, p)
    \/ \E r \in DOMAIN pc : NextFieldNone(r)
    \/ \E r \in DOMAIN pc : Draw(r)
    \/ \E r \in DOMAIN pc : Close(r)

Spec == Init /\ [][Next]_vars

SpecConc == InitConc /\ [][NextConc]_vars

----------------------------------------------------------------------------
(* Vocabulary of the properties *)

Conns == DOMAIN pc

PartsOf(r) == {submitted[r][i] : i \in 1..Len(submitted[r])}

\* the parts of r that were read under field name f
Named(r, f) == {p \in PartsOf(r) : p.kind = "part" /\ p.hasName /\ p.name = f}

Present(r, f) == Named(r, f) # {}

\* every part read so far carried a name and a complete body
WellFormed(r) == \A p \in PartsOf(r) : p.kind = "part" /\ p.hasName /\ p.readable

NumericFields == {"scale", "posx", "posy"}

AllDigits(s) == \A i \in 1..Len(s) : IsDigit(s[i])

\* a decimal numeral without sign: digits, possibly with one point
IsUnsignedNumeral(s) ==
    \E k \in 1..Len(s) :
        LET ip == SubSeq(s, 1, k)
            fp == SubSeq(s, k + 1, Len(s))
        IN  /\ AllDigits(ip)
            /\ \/ fp = <<>>
               \/ Len(fp) >= 2 /\ Head(fp) = "." /\ AllDigits(Tail(fp))

\* the text is a number: an optional sign and a decimal numeral
IsNumeric(s) ==
    \/ IsUnsignedNumeral(s)
    \/ s # <<>> /\ Head(s) \in {"+", "-"} /\ IsUnsignedNumeral(Tail(s))

\* the text is a number that is not negative
IsNonNegative(s) ==
    \/ IsUnsignedNumeral(s)
    \/ s # <<>> /\ Head(s) = "+" /\ IsUnsignedNumeral(Tail(s))

\* the validation page of each numeric field
ValidationPage(f) ==
    CASE f = "scale" -> error_page(ScaleMsg)
      [] f = "posx" -> error_page(PosxMsg)
      [] f = "posy" -> error_page(PosyMsg)

Decoded(r) == \E i \in 1..Len(steps[r]) : steps[r][i] = "decode"

FontParsed(r) == \E i \in 1..Len(steps[r]) : steps[r][i] = "font"

\* the locals of the handler of r
LocalsOf(r) == <<bytes[r], scale_num[r], posx[r], posy[r], text[r]>>

----------------------------------------------------------------------------
(* C1 *)

\* C1: if a request whose parts are all well-formed carries a non-numeric
\* value for scale, posx or posy, then the image is never decoded for it and,
\* once it has ended, its response is the validation page of such a field.
C1NonNumericRejected ==
    \A r \in Conns :
        (WellFormed(r)
         /\ \E f \in NumericFields : \E p \in Named(r, f) : ~IsNumeric(p.chars))
        => /\ ~Decoded(r)
           /\ Finished(r) =>
                \E f \in NumericFields :
                    /\ \E p \in Named(r, f) : ~IsNumeric(p.chars)
                    /\ pc[r] = "done"
                    /\ response[r] = ValidationPage(f)

----------------------------------------------------------------------------
(* C2 *)

\* C2: if a request whose parts are all well-formed carries, for scale, posx
\* or posy, a value that is not a non-negative number, then no decode,
\* overlay or encode is performed for it and, once it has ended, its response
\* is the validation page of such a field.
C2NegativeRejected ==
    \A r \in Conns :
        (WellFormed(r)
         /\ \E f \in NumericFields : \E p \in Named(r, f) : ~IsNonNegative(p.chars))
        => /\ steps[r] = <<>>
           /\ Finished(r) =>
                \E f \in NumericFields :
                    /\ \E p \in Named(r, f) : ~IsNonNegative(p.chars)
                    /\ pc[r] = "done"
                    /\ response[r] = ValidationPage(f)

----------------------------------------------------------------------------
(* C3 *)

----------------------------------------------------------------------------
(* C4 *)

\* the file bytes the request ends with: those of its last file part, or none
FileBytes(r) ==
    LET at == {i \in 1..Len(submitted[r]) :
                 submitted[r][i].kind = "part" /\ submitted[r][i].hasName
                 /\ submitted[r][i].name = "file" /\ submitted[r][i].readable}
    IN  IF at = {} THEN EmptyBytes
        ELSE submitted[r][CHOOSE i \in at : \A j \in at : j <= i].img

NumericValid(r) ==
    /\ \A p \in Named(r, "scale") : p.readable /\ IsNonNegative(p.chars)
    /\ \A p \in Named(r, "posx") \cup Named(r, "posy") :
           p.readable /\ AllDigits(p.chars) /\ p.chars # <<>> /\ Len(p.chars) < 10

\* the multipart stream arrived whole: no part or body broke off
StreamIntact(r) == \A p \in PartsOf(r) : p.kind = "part" /\ p.readable

\* C4: a request whose body arrived whole, whose numeric fields are valid and
\* whose file bytes are absent or not a decodable image ends with the
\* decode-error page: it does not panic and does not get the output page.
C4UndecodableGivesErrorPage ==
    \A r \in Conns :
        (Finished(r) /\ pc[r] # "rejected" /\ StreamIntact(r) /\ NumericValid(r)
         /\ ~Decode(FileBytes(r)).ok)
        => pc[r] = "done" /\ response[r] = error_page(DecodeMsg)

----------------------------------------------------------------------------
(* C5 *)

\* C5: a request whose parts are all well-formed, with a decodable PNG or
\* JPEG of any pixel format, valid numeric fields and a non-empty text, ends
\* with the output page holding a JPEG of the source's dimensions.
C5ValidImageSucceeds ==
    \A r \in Conns :
        (Finished(r) /\ pc[r] # "rejected" /\ WellFormed(r) /\ NumericValid(r)
         /\ Decode(FileBytes(r)).ok
         /\ Present(r, "text")
         /\ \A p \in Named(r, "text") : p.chars # <<>>)
        => /\ pc[r] = "done"
           /\ response[r].html = "Output"
           /\ response[r].img.format = "jpeg"
           /\ response[r].img.w = FileBytes(r).w
           /\ response[r].img.h = FileBytes(r).h

----------------------------------------------------------------------------
(* C6 *)

\* C6: no failure while a request is handled ends the handler in a panic:
\* every request that has ended has an HTML response.
C6NoPanic ==
    \A r \in Conns :
        /\ pc[r] # "panicked"
        /\ pc[r] = "done" => response[r].kind = "html"

----------------------------------------------------------------------------
(* C7 *)

\* C7: a POST whose body size exceeds the cap is rejected with the size-limit
\* error and the handler reads no part, keeps its file bytes empty and runs no
\* decode, overlay or encode for it.
C7OverCapRejected ==
    \A r \in Conns :
        (pc[r] # "idle" /\ contentLength[r] > Limit)
        => /\ pc[r] = "rejected"
           /\ response[r] = Rejection("PayloadTooLarge")
           /\ submitted[r] = <<>>
           /\ steps[r] = <<>>
           /\ bytes[r] = EmptyBytes

\* a POST over the cap has been answered
C7Witness ==
    \E r \in Conns : contentLength[r] = Limit + 1 /\ pc[r] = "rejected"

----------------------------------------------------------------------------
(* C8 *)

\* requests that carried the same parts and have ended, ended the same way
SameInSameOut ==
    \A r1, r2 \in Conns :
        (Finished(r1) /\ Finished(r2) /\ contentLength[r1] = contentLength[r2]
         /\ submitted[r1] = submitted[r2])
        => pc[r1] = pc[r2] /\ response[r1] = response[r2]

\* a step changes the state of one request only
OneRequestPerStep ==
    \A r1, r2 \in Conns :
        (r1 # r2 /\ <<pc[r1], submitted[r1], LocalsOf(r1), response[r1]>>'
                     # <<pc[r1], submitted[r1], LocalsOf(r1), response[r1]>>)
        => <<pc[r2], submitted[r2], LocalsOf(r2), steps[r2], response[r2]>>'
             = <<pc[r2], submitted[r2], LocalsOf(r2), steps[r2], response[r2]>>

\* C8: under every interleaving of requests in flight, a step of one request
\* leaves the state of every other request as it is, and the outcome of a
\* request is determined by its own parts.
C8Isolation == [](SameInSameOut) /\ [][OneRequestPerStep]_vars

\* one request has got its output page while another, carrying another
\* scale, is in the middle of its field loop
C8Witness ==
    \E r1, r2 \in Conns :
        /\ pc[r1] = "done" /\ response[r1].img.format = "jpeg"
        /\ pc[r2] = "reading" /\ Present(r2, "scale")
        /\ scale_num[r2] # scale_num[r1]

----------------------------------------------------------------------------
(* C9 *)

\* C9: no step of the handling of a request parses the font.
C9FontNotParsedPerRequest == \A r \in Conns : ~FontParsed(r)

----------------------------------------------------------------------------
(* C10 *)

\* after the field loop, a parameter whose part is absent has its default
AbsentIsDefault ==
    \A r \in Conns :
        (pc[r] = "extracted" \/ Decoded(r))
        => /\ ~Present(r, "file") => bytes[r] = EmptyBytes
           /\ ~Present(r, "scale") => scale_num[r] = F32("finite", FALSE, 18, 0)
           /\ ~Present(r, "posx") => posx[r] = 0
           /\ ~Present(r, "posy") => posy[r] = 0
           /\ ~Present(r, "text") => text[r] = BlueBird

\* the step after the field loop attempts the decode
ExtractedThenDecode ==
    \A r \in Conns :
        (pc[r] = "extracted" /\ pc'[r] # "extracted") => Decoded(r)'

KnownFields == {"file", "scale", "posx", "posy", "text"}

\* reading a part with an unknown field name leaves the five parameters
UnknownChangesNothing ==
    \A r \in Conns :
        (/\ Len(submitted'[r]) = Len(submitted[r]) + 1
         /\ LET p == submitted'[r][Len(submitted'[r])]
            IN  p.kind = "part" /\ p.hasName /\ p.name \notin KnownFields)
        => LocalsOf(r)' = LocalsOf(r) /\ pc'[r] = "reading"

\* C10: after field extraction every parameter whose part is absent has its
\* default (text "Blue Bird", posx 0, posy 0, scale 18, file empty) and the
\* request goes on to the decode; a part with an unknown name changes none of
\* the five parameters.
C10DefaultsKept ==
    [](AbsentIsDefault) /\ [][ExtractedThenDecode /\ UnknownChangesNothing]_vars

\* a request with an unknown part and without scale and text was decoded
C10Witness ==
    \E r \in Conns :
        /\ Decoded(r)
        /\ Present(r, "submit")
        /\ ~Present(r, "scale") /\ ~Present(r, "text")

====
